---- MODULE Spec2Model ----
(***************************************************************************)
(* A model of trelloRadar.py: the results tree built by show_data, the     *)
(* search history kept in the combobox, the settings file written by       *)
(* on_closing and read by get_config, and the AuthDialog page flow.        *)
(*                                                                         *)
(* Strings that the program takes apart or compares character by character *)
(* (query strings, the settings file's values) are sequences of one-       *)
(* character strings.  Names that are only compared for order are TLA+     *)
(* strings ranked by NameOrder.  A tree item id, which the program builds  *)
(* with '|'.join, is the sequence of the joined components.                *)
(***************************************************************************)
EXTENDS Integers, Sequences, FiniteSets, TLC

VARIABLES
    today,          \* self.today, a day number
    entry,          \* the text of the combobox self.entry
    values,         \* self.entry['values'], the search history
    sorting,        \* the StringVar self.sorting
    server,         \* the cards of the user's Trello account
    response,       \* the cards returned by the last search_cards call
    last_sorting,   \* the sorting argument of the last show_data call
    tree,           \* the items of self.todo_tree, in insertion order
    opened,         \* the last event on the tree that reached a handler,
                    \* and the url it gave to webbrowser.open, if any
    geometry,       \* position and size of the root window
    pc,             \* where the program is: "off", "get_API_key", "get_token",
                    \* "running", "closed"
    file,           \* the options of settings.ini
    config,         \* self.config
    API_key,        \* self.API_key
    token,          \* self.token
    search_strings, \* self.search_strings
    sort_string,    \* self.sort_string
    window_geom,    \* self.window_geom
    probe,          \* the answer to the last request of validate_credentials
    browser         \* the FormBrowser of the running AuthDialog

uiVars == <<today, server, entry, values, sorting, response, last_sorting, tree,
            opened>>

lifeVars == <<geometry, pc, file, config, API_key, token, search_strings,
              sort_string, window_geom, probe, browser>>

vars == <<uiVars, lifeVars>>

----------------------------------------------------------------------------
(* Bounds *)

MaxCards == 3           \* cards in one search result
MaxDaysAhead == 7       \* latest due date, in days after today
MaxClosed == 1          \* items the user keeps closed at a time
MaxTyped == 1           \* query strings the user added to the history
MaxQueryLen == 2        \* characters of such a query string

----------------------------------------------------------------------------
(* Values *)

None == -1              \* Python's None, for a card without due date

TicksPerDay == 2        \* a due time is a count of half days; its date is
                        \* the day it falls in

AtMe == <<"@", "m", "e">>
Qa == <<"a">>
Queries == {<<>>, AtMe, Qa}

\* The characters of the query strings that reach the settings file: a
\* letter, the separator of the stored history, and the blank.
Alphabet == {"a", ";", " "}

\* The query strings of at most n characters that send_querystring records.
Typed(n) == UNION { [1..k -> Alphabet] : k \in 1..n }

\* The positions and sizes of the root window.
Geometries ==
    { [x |-> 0, y |-> 0, width |-> 540, height |-> 700],
      [x |-> -8, y |-> 31, width |-> 1024, height |-> 96] }

\* The values of the radio buttons of setup_gui.
sorting_options == {"board list", "board", "list board", "list", ""}

\* str.split() on the values of the radio buttons.
split(s) ==
    CASE s = "board list" -> <<"board", "list">>
      [] s = "board"      -> <<"board">>
      [] s = "list board" -> <<"list", "board">>
      [] s = "list"       -> <<"list">>
      [] s = ""           -> <<>>

\* The names used below, in the order Python's string comparison gives them.
NameOrder == <<"Docs", "Doing", "Ops", "Todo", "card">>

Rank(n) == CHOOSE i \in DOMAIN NameOrder : NameOrder[i] = n

Boards == { [url |-> "https://trello.com/b/1", name |-> "Ops"],
            [url |-> "https://trello.com/b/2", name |-> "Docs"],
            [url |-> "https://trello.com/b/3", name |-> "Ops"] }

Lists == { [name |-> "Todo"], [name |-> "Doing"], [name |-> "card"] }

Board(u) == CHOOSE b \in Boards : b.url = u

Badges == { [checkItems |-> 0, checkItemsChecked |-> 0],
            [checkItems |-> 2, checkItemsChecked |-> 1],
            [checkItems |-> 2, checkItemsChecked |-> 2] }

\* The due times a card can carry: None, or a time of a day from yesterday
\* to MaxDaysAhead days after today.
DueTimes(t) ==
    {None} \cup { d * TicksPerDay + h :
                      d \in (t - 1)..(t + MaxDaysAhead), h \in 0..(TicksPerDay - 1) }

Card(u, b, l, due, done, badges) ==
    [url |-> u, name |-> "task", board |-> Board(b), list |-> [name |-> l],
     due |-> due, dueComplete |-> done, badges |-> badges]

\* The accounts of the main specification.  In the first, board "Ops" has
\* two lists and board "Docs" one; in the second, two boards are named "Ops"
\* (the sort key is the name, the tree item id is the url).
Accounts(t) ==
    { { Card("https://trello.com/c/1", "https://trello.com/b/1", "Todo",
             (t - 1) * TicksPerDay, FALSE,
             [checkItems |-> 0, checkItemsChecked |-> 0]),
        Card("https://trello.com/c/2", "https://trello.com/b/1", "Doing",
             None, FALSE, [checkItems |-> 2, checkItemsChecked |-> 1]),
        Card("https://trello.com/c/3", "https://trello.com/b/2", "Todo",
             (t + 3) * TicksPerDay, FALSE,
             [checkItems |-> 2, checkItemsChecked |-> 2]) },
      { Card("https://trello.com/c/1", "https://trello.com/b/1", "Todo",
             (t - 1) * TicksPerDay, FALSE,
             [checkItems |-> 0, checkItemsChecked |-> 0]),
        Card("https://trello.com/c/3", "https://trello.com/b/2", "Todo",
             (t + 3) * TicksPerDay, FALSE,
             [checkItems |-> 2, checkItemsChecked |-> 2]),
        Card("https://trello.com/c/4", "https://trello.com/b/3", "Doing",
             None, TRUE, [checkItems |-> 2, checkItemsChecked |-> 2]) } }

\* An account with a list named 'card', the first label of the item id of a
\* card.
LinkAccounts(t) ==
    { { Card("https://trello.com/c/1", "https://trello.com/b/1", "Todo",
             None, FALSE, [checkItems |-> 0, checkItemsChecked |-> 0]),
        Card("https://trello.com/c/2", "https://trello.com/b/1", "Doing",
             None, FALSE, [checkItems |-> 0, checkItemsChecked |-> 0]),
        Card("https://trello.com/c/6", "https://trello.com/b/2", "card",
             None, FALSE, [checkItems |-> 0, checkItemsChecked |-> 0]) } }

\* One card with every combination of due time, dueComplete and badges.
Variants(t) ==
    { Card("https://trello.com/c/5", "https://trello.com/b/2", "Doing",
           due, done, badges) :
        due \in DueTimes(t), done \in BOOLEAN, badges \in Badges }

\* The sequences of at most n distinct elements of S.
RECURSIVE Arrangements(_, _)
Arrangements(S, n) ==
    IF n = 0 THEN {<<>>}
    ELSE LET shorter == Arrangements(S, n - 1)
             longest == { r \in shorter : Len(r) = n - 1 }
         IN  shorter \cup
             UNION { { Append(q, c) : c \in { x \in S : \A i \in DOMAIN q : q[i] # x } } :
                     q \in longest }

\* What search_cards can return: [] (also on a status other than 200), or
\* some of the account's cards in any order.
Results(account) == Arrangements(account, MaxCards)

----------------------------------------------------------------------------
(* Strings and the settings file *)

\* ';'.join(strs) and its like.
RECURSIVE join(_, _)
join(sep, strs) ==
    IF strs = <<>> THEN <<>>
    ELSE IF Len(strs) = 1 THEN strs[1]
    ELSE strs[1] \o <<sep>> \o join(sep, Tail(strs))

\* str.split(sep): the pieces between the separators, so one piece for a
\* string without separator, the empty string included.
RECURSIVE split_on(_, _)
split_on(sep, str) ==
    IF \A i \in DOMAIN str : str[i] # sep THEN <<str>>
    ELSE LET i == CHOOSE k \in DOMAIN str :
                      str[k] = sep /\ \A j \in 1..(k - 1) : str[j] # sep
         IN  <<SubSeq(str, 1, i - 1)>> \o split_on(sep, SubSeq(str, i + 1, Len(str)))

\* str.strip(), which ConfigParser applies to a value it reads.
RECURSIVE strip(_)
strip(str) ==
    IF str = <<>> THEN str
    ELSE IF Head(str) = " " THEN strip(Tail(str))
    ELSE IF str[Len(str)] = " " THEN strip(SubSeq(str, 1, Len(str) - 1))
    ELSE str

Digits == <<"0", "1", "2", "3", "4", "5", "6", "7", "8", "9">>

\* str(n) of an integer.
RECURSIVE str(_)
str(n) ==
    IF n < 0 THEN <<"-">> \o str(-n)
    ELSE IF n < Len(Digits) THEN <<Digits[n + 1]>>
    ELSE str(n \div Len(Digits)) \o <<Digits[(n % Len(Digits)) + 1]>>

\* The integer Tk reads in a geometry string.
RECURSIVE int(_)
int(s) ==
    IF s = <<>> THEN 0
    ELSE IF Head(s) = "-" THEN -int(Tail(s))
    ELSE int(SubSeq(s, 1, Len(s) - 1)) * Len(Digits)
         + (CHOOSE d \in 0..(Len(Digits) - 1) : Digits[d + 1] = s[Len(s)])

\* An option of the settings file: absent, or present with a value.
Absent == [has |-> FALSE, value |-> <<>>]
Option(v) == [has |-> TRUE, value |-> v]

\* A ConfigParser without sections.
EmptyConfig ==
    [API_key |-> Absent, token |-> Absent, search_strings |-> Absent,
     sort_string |-> [has |-> FALSE, value |-> ""],
     posx |-> Absent, posy |-> Absent, width |-> Absent, height |-> Absent]

\* ConfigParser.write followed, at the next start, by ConfigParser.read: the
\* options come back with their values stripped.  The values of the sort
\* option are those of the radio buttons, which strip leaves alone.
read(f) ==
    [API_key |-> [f.API_key EXCEPT !.value = strip(@)],
     token |-> [f.token EXCEPT !.value = strip(@)],
     search_strings |-> [f.search_strings EXCEPT !.value = strip(@)],
     sort_string |-> f.sort_string,
     posx |-> [f.posx EXCEPT !.value = strip(@)],
     posy |-> [f.posy EXCEPT !.value = strip(@)],
     width |-> [f.width EXCEPT !.value = strip(@)],
     height |-> [f.height EXCEPT !.value = strip(@)]]

\* The class attributes of TrelloRadarApp.
default_search_strings == <<AtMe>>
default_sort_string == "board list"
default_window_geom ==
    [posx |-> <<"0">>, posy |-> <<"0">>,
     width |-> <<"5", "4", "0">>, height |-> <<"7", "0", "0">>]

\* len(self.API_key) == 32
KeyLength == 32

\* The API key of the user's account, a key of 32 characters that is not
\* the account's, and a stored value that is no key.
UserKey == [i \in 1..KeyLength |-> "k"]
OtherKey == [i \in 1..KeyLength |-> "x"]
ShortKey == <<"k">>

\* The tokens the authorization page hands out.
Tokens == {<<"t">>, <<"u">>}

\* The answers of api.trello.com/1/members/me/ that validate_credentials
\* tells apart: the status and whether the text holds 'invalid token'.
Probes ==
    { [status |-> 200, invalid_token |-> FALSE],
      [status |-> 401, invalid_token |-> TRUE],
      [status |-> 401, invalid_token |-> FALSE] }

NoProbe == [status |-> 0, invalid_token |-> FALSE]

----------------------------------------------------------------------------
(* show_data *)

\* The sort key of show_data: tuple(c[s]['name'] for s in sorting).
sort_key(c, sort) == [i \in DOMAIN sort |-> c[sort[i]].name]

\* Python's < on two tuples of names of the same length.
RECURSIVE TupleLt(_, _)
TupleLt(a, b) ==
    IF a = <<>> \/ b = <<>> THEN a = <<>> /\ b # <<>>
    ELSE IF Head(a) # Head(b) THEN Rank(Head(a)) < Rank(Head(b))
    ELSE TupleLt(Tail(a), Tail(b))

\* Python's sorted(cards, key=...): stable, so a card goes after every card
\* before it in the input whose key is not greater.
\* sorted, had it kept the order of the answer.
sorted_unsorted(cards, sort) == cards

RECURSIVE sorted(_, _)
sorted(cards, sort) ==
    IF cards = <<>> THEN <<>>
    ELSE LET n == Len(cards)
             c == cards[n]
             s == sorted(SubSeq(cards, 1, n - 1), sort)
             pos == Cardinality({ i \in DOMAIN s :
                                    ~TupleLt(sort_key(c, sort), sort_key(s[i], sort)) })
         IN  SubSeq(s, 1, pos) \o <<c>> \o SubSeq(s, pos + 1, Len(s))

\* Treeview.exists: the root '' always exists.
exists(t, iid) == iid = <<>> \/ \E i \in DOMAIN t : t[i].iid = iid

\* Treeview.get_children, in display order.
get_children(t, item) == SelectSeq(t, LAMBDA n : n.parent = item)

\* Treeview.insert(parent, 'end', iid, ...): a new item is closed.
insert(t, parent, iid, text, due_date, tags) ==
    Append(t, [iid |-> iid, parent |-> parent, text |-> text,
               values |-> due_date, tags |-> tags, open |-> FALSE])

\* Treeview.item(iid, open=...).
set_open(t, iid, is_open) ==
    [i \in DOMAIN t |-> IF t[i].iid = iid THEN [t[i] EXCEPT !.open = is_open] ELSE t[i]]

\* record_open_item, had it not descended below the items of item.
record_open_item_one_level(t, item) ==
    LET subitems == get_children(t, item)
    IN  { <<subitems[i].iid, subitems[i].open>> :
            i \in { k \in DOMAIN subitems :
                      get_children(t, subitems[k].iid) # <<>> } }

\* record_open_item: the open flag of every item that has children, found by
\* descending from item through items that have children.
RECURSIVE record_open_item(_, _)
record_open_item(t, item) ==
    LET subitems == get_children(t, item)
        withChildren == { i \in DOMAIN subitems :
                            get_children(t, subitems[i].iid) # <<>> }
    IN  { <<subitems[i].iid, subitems[i].open>> : i \in withChildren } \cup
        UNION { record_open_item(t, subitems[i].iid) : i \in withChildren }

\* dict.get(iid, True) on is_item_open.
get_open(is_item_open, iid) ==
    IF \E p \in is_item_open : p[1] = iid
    THEN (CHOOSE p \in is_item_open : p[1] = iid)[2]
    ELSE TRUE

\* The date of a due time (strptime(...).date()).
date(due) == due \div TicksPerDay

\* card_tags, had it compared today >= due_date for 'overdue'.
card_tags_overdue_today(c, t) ==
    LET status ==
            IF c.due # None
            THEN IF c.dueComplete THEN <<"complete">>
                 ELSE IF t >= date(c.due) THEN <<"overdue">>
                 ELSE IF date(c.due) - t < 7 THEN <<"duethisweek">>
                 ELSE <<>>
            ELSE <<>>
    IN  IF /\ status = <<>>
           /\ c.badges.checkItems # 0
           /\ c.badges.checkItems = c.badges.checkItemsChecked
        THEN status \o <<"100%">>
        ELSE status

\* card_tags, had it tested dueComplete after the due date.
card_tags_complete_last(c, t) ==
    LET status ==
            IF c.due # None
            THEN IF t > date(c.due) THEN <<"overdue">>
                 ELSE IF t = date(c.due) THEN <<"duetoday">>
                 ELSE IF c.dueComplete THEN <<"complete">>
                 ELSE IF date(c.due) - t < 7 THEN <<"duethisweek">>
                 ELSE <<>>
            ELSE <<>>
    IN  IF /\ status = <<>>
           /\ c.badges.checkItems # 0
           /\ c.badges.checkItems = c.badges.checkItemsChecked
        THEN status \o <<"100%">>
        ELSE status

\* card_tags, had it added '100%' without testing `not tags`.
card_tags_always_100(c, t) ==
    LET status ==
            IF c.due # None
            THEN IF c.dueComplete THEN <<"complete">>
                 ELSE IF t > date(c.due) THEN <<"overdue">>
                 ELSE IF t = date(c.due) THEN <<"duetoday">>
                 ELSE IF date(c.due) - t < 7 THEN <<"duethisweek">>
                 ELSE <<>>
            ELSE <<>>
    IN  IF /\ c.badges.checkItems # 0
           /\ c.badges.checkItems = c.badges.checkItemsChecked
        THEN status \o <<"100%">>
        ELSE status

\* The tags of a card's leaf: the status by the due date, then '100%'.
card_tags(c, t) ==
    LET status ==
            IF c.due # None
            THEN IF c.dueComplete THEN <<"complete">>
                 ELSE IF t > date(c.due) THEN <<"overdue">>
                 ELSE IF t = date(c.due) THEN <<"duetoday">>
                 ELSE IF date(c.due) - t < 7 THEN <<"duethisweek">>
                 ELSE <<>>
            ELSE <<>>
    IN  IF /\ status = <<>>
           /\ c.badges.checkItems # 0
           /\ c.badges.checkItems = c.badges.checkItemsChecked
        THEN status \o <<"100%">>
        ELSE status

\* The categories dictionary of show_data.
categories(c, s) == IF s = "board" THEN c.board.url ELSE c.list.name

\* One pass of the loop of show_data over the card c.
add_card(t, c, sort, is_item_open, day) ==
    LET cat_1 == <<categories(c, sort[1])>>
        t1 == IF Len(sort) > 0 /\ ~exists(t, cat_1)
              THEN set_open(insert(t, <<>>, cat_1, c[sort[1]].name, None,
                                   <<"cat1name">>),
                            cat_1, get_open(is_item_open, cat_1))
              ELSE t
        cat_2 == [i \in DOMAIN sort |-> categories(c, sort[i])]
        t2 == IF Len(sort) > 1 /\ ~exists(t1, cat_2)
              THEN set_open(insert(t1, cat_1, cat_2, c[sort[2]].name, None,
                                   <<"cat2name">>),
                            cat_2, get_open(is_item_open, cat_2))
              ELSE t1
        card_insert == IF Len(sort) > 1 THEN cat_2
                       ELSE IF Len(sort) > 0 THEN cat_1 ELSE <<>>
        due_date == IF c.due # None THEN date(c.due) ELSE None
    IN  insert(t2, card_insert, <<"card", c.url>>, c.name, due_date,
               card_tags(c, day))

RECURSIVE add_cards(_, _, _, _, _)
add_cards(t, cards, sort, is_item_open, day) ==
    IF cards = <<>> THEN t
    ELSE add_cards(add_card(t, Head(cards), sort, is_item_open, day),
                   Tail(cards), sort, is_item_open, day)

\* show_data: the tree after it, from the tree before it and the cards that
\* search_cards returned.
show_data(t, cards, sort, day) ==
    add_cards(<<>>, sorted(cards, sort), sort, record_open_item(t, <<>>), day)

----------------------------------------------------------------------------
(* The handlers of the main window *)

\* record_query, had it recorded the query string without looking it up.
record_query_always(query_string, history) == <<query_string>> \o history

\* record_query, had it added a new query string at the end.
record_query_last(query_string, history) ==
    IF \E i \in DOMAIN history : history[i] = query_string
    THEN history
    ELSE history \o <<query_string>>

\* The history after send_querystring looked query_string up in it.
record_query(query_string, history) ==
    IF \E i \in DOMAIN history : history[i] = query_string
    THEN history
    ELSE <<query_string>> \o history

\* send_querystring, with s the value of self.sorting and cards the answer of
\* search_cards.
send_querystring(s, cards) ==
    IF entry = <<>>
    THEN UNCHANGED <<values, response, last_sorting, tree>>
    ELSE /\ values' = record_query(entry, values)
         /\ response' = cards
         /\ last_sorting' = split(s)
         /\ tree' = show_data(tree, cards, split(s), today)

\* The user types a query string in the combobox, or picks one of its values.
TypeQuery ==
    /\ pc = "running"
    /\ \E q \in Queries : entry' = q
    /\ UNCHANGED <<today, server, values, sorting, response, last_sorting, tree>>
    /\ UNCHANGED <<opened, lifeVars>>

\* Return in the combobox, or the Refresh button.
on_refresh_event ==
    /\ pc = "running"
    /\ \E cards \in Results(server) : send_querystring(sorting, cards)
    /\ UNCHANGED <<today, server, entry, sorting>>
    /\ UNCHANGED <<opened, lifeVars>>

\* A radio button of the options tab: the write to self.sorting runs
\* on_refresh_event through the trace.
SelectSorting ==
    /\ pc = "running"
    /\ \E s \in sorting_options :
          /\ sorting' = s
          /\ \E cards \in Results(server) : send_querystring(s, cards)
    /\ UNCHANGED <<today, server, entry>>
    /\ UNCHANGED <<opened, lifeVars>>

clear_search ==
    /\ pc = "running"
    /\ values' = <<AtMe>>
    /\ UNCHANGED <<today, server, entry, sorting, response, last_sorting, tree>>
    /\ UNCHANGED <<opened, lifeVars>>

\* The user opens or closes an item that has children.
ToggleItem ==
    /\ pc = "running"
    /\ \E i \in DOMAIN tree :
          /\ get_children(tree, tree[i].iid) # <<>>
          /\ tree[i].open =>
                Cardinality({ j \in DOMAIN tree :
                    get_children(tree, tree[j].iid) # <<>> /\ ~tree[j].open })
                  < MaxClosed
          /\ tree' = [tree EXCEPT ![i].open = ~tree[i].open]
    /\ UNCHANGED <<today, server, entry, values, sorting, response, last_sorting>>
    /\ UNCHANGED <<opened, lifeVars>>

----------------------------------------------------------------------------
(* The handlers of the tree *)

\* No event on the tree reached a handler yet.
NoCall == [event |-> "none", row |-> <<>>, url |-> ""]

\* The strings of the model that start with 'https:': the urls of the
\* boards and of the cards.  No name of a board or of a list does.
startswith_https(s) ==
    \/ \E b \in Boards : s = b.url
    \/ \E c \in server : s = c.url

\* iid.split('|'): an item id is kept as the tuple of the strings that were
\* joined with '|', none of which holds a '|'; '' gives [''].
split_bar(iid) == IF iid = <<>> THEN <<"">> ELSE iid

\* link_tree: the url given to webbrowser.open, the first label that starts
\* with 'https:', or "" when there is none and nothing is opened.
link_tree(labels) ==
    IF \E i \in DOMAIN labels : startswith_https(labels[i])
    THEN labels[CHOOSE i \in DOMAIN labels :
                  /\ startswith_https(labels[i])
                  /\ \A j \in 1..(i - 1) : ~startswith_https(labels[j])]
    ELSE ""

\* on_tree_button, had it filtered nothing out.
on_tree_button_unfiltered(num, row) == link_tree(split_bar(row))

\* on_tree_button for the mouse button num on the item row ('' outside the
\* items): the url opened, or "".
on_tree_button(num, row) ==
    LET labels == split_bar(row)
    IN  IF num = 1 /\ labels[1] # "card" THEN "" ELSE link_tree(labels)

\* on_tree_return with the focus on the item focus ('' without focus).
on_tree_return(focus) == link_tree(split_bar(focus))

\* The item ids of the tree, and '' for no item.
Rows == { tree[i].iid : i \in DOMAIN tree } \cup { <<>> }

\* <Double-1> or <Button-3> on the tree.
TreeButton ==
    /\ pc = "running"
    /\ \E num \in {1, 3}, row \in Rows :
          opened' = [event |-> IF num = 1 THEN "Double-1" ELSE "Button-3",
                     row |-> row, url |-> on_tree_button(num, row)]
    /\ UNCHANGED <<today, server, entry, values, sorting, response,
                   last_sorting, tree>>
    /\ UNCHANGED lifeVars

\* <Return> on the tree.
TreeReturn ==
    /\ pc = "running"
    /\ \E focus \in Rows :
          opened' = [event |-> "Return", row |-> focus,
                     url |-> on_tree_return(focus)]
    /\ UNCHANGED <<today, server, entry, values, sorting, response,
                   last_sorting, tree>>
    /\ UNCHANGED lifeVars

----------------------------------------------------------------------------
(* AuthDialog.FormBrowser *)

login_url == [page |-> "login", key |-> <<>>]
login_redirect_url == [page |-> "landing", key |-> <<>>]
API_key_url == [page |-> "app-key", key |-> <<>>]
token_url(key) == [page |-> "authorize", key |-> key]
\* The page Trello answers with when the user allows the access asked for by
\* token_url(key).
approve_url(key) == [page |-> "approve", key |-> key]
\* Any other page of trello.com.
other_url == [page |-> "other", key |-> <<>>]

NoBrowser ==
    [API_key |-> <<>>, token |-> <<>>, url |-> [page |-> "none", key |-> <<>>],
     phase |-> "closed", visible |-> FALSE, from_scratch |-> FALSE]

\* FormBrowser.__init__: without API key the form starts at the login page and
\* also binds on_navigated and check_API_key.
FormBrowser(key) ==
    [API_key |-> key, token |-> <<>>,
     url |-> IF key # <<>> THEN token_url(key) ELSE login_url,
     phase |-> "navigating", visible |-> TRUE, from_scratch |-> key = <<>>]

PlainDocument == [h1 |-> FALSE, key |-> Absent, p |-> FALSE, pre |-> Absent]

\* What the handlers can find in the document of a page: whether the h1
\* holds api_key_success_string and the value of the input 'key', whether
\* the first p holds token_success_string and the text of the pre.  A page
\* can also come without the element the handler looks for.
Documents(url) ==
    CASE url.page = "app-key" ->
            { [PlainDocument EXCEPT !.h1 = TRUE, !.key = Option(UserKey)],
              [PlainDocument EXCEPT !.h1 = TRUE],
              PlainDocument }
      [] url.page = "approve" ->
            { [PlainDocument EXCEPT !.p = TRUE, !.pre = Option(t)] : t \in Tokens }
            \cup { [PlainDocument EXCEPT !.p = TRUE] }
      [] OTHER -> { PlainDocument }

\* Where the user can get from a page that is shown.  Trello shows the
\* approval page only for the key of an account, after the user allowed the
\* access on the page of token_url.
Links(url) ==
    CASE url.page = "login" -> { login_url, login_redirect_url, other_url }
      [] url.page = "authorize" ->
            { other_url } \cup (IF url.key = UserKey THEN { approve_url(url.key) } ELSE {})
      [] url.page = "app-key" -> { API_key_url, other_url }
      [] OTHER -> { login_url, login_redirect_url, other_url }

\* on_navigated, bound only when the form started without API key.
on_navigated(b) ==
    IF b.from_scratch
    THEN IF b.url = login_redirect_url
         THEN [b EXCEPT !.visible = TRUE, !.url = API_key_url]
         ELSE [b EXCEPT !.visible = TRUE, !.phase = "loading"]
    ELSE [b EXCEPT !.phase = "loading"]

\* check_token on the document doc: the form after it; phase "closed" after
\* self.Close().  A missing element raises, which the handler swallows.
check_token(b, doc) ==
    IF doc.p /\ doc.pre.has
    THEN [b EXCEPT !.token = strip(doc.pre.value), !.phase = "closed"]
    ELSE b

\* check_API_key, had it navigated to the token page without keeping the key.
check_API_key_forgets(b, doc) ==
    IF ~b.from_scratch \/ ~doc.h1 THEN b
    ELSE IF ~doc.key.has THEN [b EXCEPT !.visible = FALSE]
    ELSE [b EXCEPT !.visible = FALSE,
                   !.url = token_url(doc.key.value), !.phase = "navigating"]

\* check_API_key on the document doc, bound only when the form started
\* without API key.
check_API_key(b, doc) ==
    IF ~b.from_scratch \/ ~doc.h1 THEN b
    ELSE IF ~doc.key.has THEN [b EXCEPT !.visible = FALSE]
    ELSE [b EXCEPT !.visible = FALSE, !.API_key = doc.key.value,
                   !.url = token_url(doc.key.value), !.phase = "navigating"]

\* The handlers of DocumentCompleted in the order they were bound:
\* on_document_completed parses the page, then check_token, then
\* check_API_key.
on_document_completed(b, doc) ==
    LET b1 == check_token([b EXCEPT !.phase = "idle"], doc)
        b2 == check_API_key(b1, doc)
    IN  IF b1.phase = "closed" THEN [b2 EXCEPT !.phase = "closed"] ELSE b2

----------------------------------------------------------------------------
(* get_config, setup_gui and on_closing *)

\* The rest of __init__ once the credentials are settled, with cfg the
\* configuration read: get_config from its 'search' section on, setup_gui,
\* and the two runs of send_querystring (the trace of self.sorting, then
\* __init__ itself).
finish_init(cfg) ==
    LET strings == IF cfg.search_strings.has
                   THEN split_on(";", cfg.search_strings.value)
                   ELSE default_search_strings
        cfg1 == IF cfg.search_strings.has THEN cfg
                ELSE [cfg EXCEPT !.search_strings = Option(default_search_strings[1])]
        sort == IF cfg.sort_string.has THEN cfg.sort_string.value
                ELSE default_sort_string
        cfg2 == IF cfg.sort_string.has THEN cfg1
                ELSE [cfg1 EXCEPT !.sort_string = [has |-> TRUE, value |-> default_sort_string]]
        geom == IF cfg.posx.has /\ cfg.posy.has /\ cfg.width.has /\ cfg.height.has
                THEN [posx |-> cfg.posx.value, posy |-> cfg.posy.value,
                      width |-> cfg.width.value, height |-> cfg.height.value]
                ELSE default_window_geom
        history == record_query(strings[1], record_query(strings[1], strings))
    IN  /\ search_strings' = strings
        /\ sort_string' = sort
        /\ window_geom' = geom
        /\ config' = cfg2
        /\ geometry' = [x |-> int(geom.posx), y |-> int(geom.posy),
                        width |-> int(geom.width), height |-> int(geom.height)]
        /\ entry' = strings[1]
        /\ sorting' = sort
        /\ IF strings[1] = <<>>
           THEN /\ values' = strings
                /\ response' = <<>>
                /\ last_sorting' = <<>>
                /\ tree' = <<>>
           ELSE \E first, second \in Results(server) :
                /\ values' = history
                /\ response' = second
                /\ last_sorting' = split(sort)
                /\ tree' = show_data(show_data(<<>>, first, split(sort), today),
                                     second, split(sort), today)
        /\ pc' = "running"
        /\ browser' = NoBrowser
        /\ UNCHANGED <<today, server, opened>>

\* AuthDialog(key) from get_API_key or get_token: the form is shown and the
\* caller waits for it.
start_dialog(caller, key, cfg) ==
    /\ pc' = caller
    /\ browser' = FormBrowser(key)
    /\ config' = cfg
    /\ search_strings' = default_search_strings
    /\ sort_string' = default_sort_string
    /\ window_geom' = default_window_geom
    /\ UNCHANGED <<uiVars, geometry, file>>

\* validate_credentials, had it not looked at the length of the key.
validate_credentials_any_length(cfg, answer) ==
    /\ probe' = answer
    /\ API_key' = cfg.API_key.value
    /\ token' = cfg.token.value
    /\ IF answer.status = 200
       THEN file' = file /\ finish_init(cfg)
       ELSE IF answer.invalid_token
       THEN start_dialog("get_token", cfg.API_key.value, cfg)
       ELSE start_dialog("get_API_key", <<>>, cfg)

\* validate_credentials, with answer the response to its request.
validate_credentials(cfg, answer) ==
    /\ probe' = answer
    /\ IF answer.status = 200
       THEN /\ API_key' = cfg.API_key.value
            /\ token' = cfg.token.value
            /\ file' = file
            /\ finish_init(cfg)
       ELSE IF Len(cfg.API_key.value) = KeyLength /\ answer.invalid_token
       THEN /\ API_key' = cfg.API_key.value
            /\ token' = cfg.token.value
            /\ start_dialog("get_token", cfg.API_key.value, cfg)
       ELSE /\ API_key' = cfg.API_key.value
            /\ token' = cfg.token.value
            /\ start_dialog("get_API_key", <<>>, cfg)

\* The program is started: __init__ up to the main loop, or up to the
\* AuthDialog that get_config has to wait for.
get_config ==
    /\ pc \in {"off", "closed"}
    /\ LET cfg == read(file)
       IN  IF cfg.API_key.has
           THEN IF cfg.token.has
                THEN \E answer \in Probes : validate_credentials(cfg, answer)
                ELSE /\ API_key' = cfg.API_key.value
                     /\ token' = <<>>
                     /\ probe' = NoProbe
                     /\ start_dialog("get_token", cfg.API_key.value, cfg)
           ELSE /\ API_key' = <<>>
                /\ token' = <<>>
                /\ probe' = NoProbe
                /\ start_dialog("get_API_key", <<>>, cfg)

\* dialog_closed, had get_API_key and get_token not saved the configuration.
dialog_closed_unsaved(b) ==
    LET cfg == IF pc = "get_API_key"
               THEN [config EXCEPT !.API_key = Option(b.API_key),
                                   !.token = Option(b.token)]
               ELSE [config EXCEPT !.token = Option(b.token)]
    IN  /\ API_key' = IF pc = "get_API_key" THEN b.API_key ELSE API_key
        /\ token' = b.token
        /\ file' = file
        /\ finish_init(cfg)
        /\ UNCHANGED probe

\* The form was closed, by check_token or by the user: get_API_key or
\* get_token goes on with what the form holds, saves the configuration, and
\* __init__ goes on.
dialog_closed(b) ==
    LET cfg == IF pc = "get_API_key"
               THEN [config EXCEPT !.API_key = Option(b.API_key),
                                   !.token = Option(b.token)]
               ELSE [config EXCEPT !.token = Option(b.token)]
    IN  /\ API_key' = IF pc = "get_API_key" THEN b.API_key ELSE API_key
        /\ token' = b.token
        /\ file' = cfg
        /\ finish_init(cfg)
        /\ UNCHANGED probe

InDialog == pc \in {"get_API_key", "get_token"}

\* The Navigated event of the web browser.
Navigated ==
    /\ InDialog
    /\ browser.phase = "navigating"
    /\ browser' = on_navigated(browser)
    /\ UNCHANGED <<uiVars, geometry, pc, file, config, API_key, token,
                   search_strings, sort_string, window_geom, probe>>

\* The DocumentCompleted event of the web browser.
DocumentCompleted ==
    /\ InDialog
    /\ browser.phase = "loading"
    /\ \E doc \in Documents(browser.url) :
          LET b == on_document_completed(browser, doc)
          IN  IF b.phase = "closed"
              THEN dialog_closed(b)
              ELSE /\ browser' = b
                   /\ UNCHANGED <<uiVars, geometry, pc, file, config, API_key,
                                  token, search_strings, sort_string,
                                  window_geom, probe>>

\* The user follows a link or sends a form of the page shown.
UserNavigates ==
    /\ InDialog
    /\ browser.phase = "idle"
    /\ browser.visible
    /\ \E target \in Links(browser.url) :
          browser' = [browser EXCEPT !.url = target, !.phase = "navigating"]
    /\ UNCHANGED <<uiVars, geometry, pc, file, config, API_key, token,
                   search_strings, sort_string, window_geom, probe>>

\* The user closes the Authorization window.
UserCloses ==
    /\ InDialog
    /\ dialog_closed(browser)

\* on_closing: the history, the sorting and the window geometry go to the
\* configuration, which is saved.  What the widgets held stays in the
\* variables until the next start replaces it.
on_closing ==
    /\ pc = "running"
    /\ config' = [config EXCEPT
                     !.search_strings = Option(join(";", values)),
                     !.sort_string = [has |-> TRUE, value |-> sorting],
                     !.posx = Option(str(geometry.x)),
                     !.posy = Option(str(geometry.y)),
                     !.width = Option(str(geometry.width)),
                     !.height = Option(str(geometry.height))]
    /\ file' = config'
    /\ pc' = "closed"
    /\ UNCHANGED <<uiVars, geometry, API_key, token, search_strings,
                   sort_string, window_geom, probe, browser>>

----------------------------------------------------------------------------
(* Specifications *)

\* A session with stored credentials that were found valid.
InSession(geom) ==
    /\ pc = "running"
    /\ geometry = geom
    /\ API_key = UserKey
    /\ token = <<"t">>
    /\ file = [EmptyConfig EXCEPT !.API_key = Option(UserKey),
                                  !.token = Option(<<"t">>)]
    /\ config = [file EXCEPT
                    !.search_strings = Option(default_search_strings[1]),
                    !.sort_string = [has |-> TRUE, value |-> default_sort_string]]
    /\ search_strings = default_search_strings
    /\ sort_string = default_sort_string
    /\ window_geom = default_window_geom
    /\ probe = [status |-> 200, invalid_token |-> FALSE]
    /\ browser = NoBrowser

default_geometry ==
    [x |-> int(default_window_geom.posx), y |-> int(default_window_geom.posy),
     width |-> int(default_window_geom.width),
     height |-> int(default_window_geom.height)]

\* After __init__: get_config found no stored history, setup_gui put
\* search_strings[0] in the combobox and set the stored sorting, which ran
\* the first search.
Started(accounts) ==
    /\ today = 1
    /\ server \in accounts
    /\ values = <<AtMe>>
    /\ entry = values[1]
    /\ sorting \in sorting_options
    /\ last_sorting = split(sorting)
    /\ response \in Results(server)
    /\ tree = show_data(<<>>, response, split(sorting), today)
    /\ opened = NoCall
    /\ InSession(default_geometry)

Init == Started(Accounts(1))

\* The same program on an account of one card, which has any due time,
\* dueComplete and badges.
InitTags == Started({ {c} : c \in Variants(1) })

Next ==
    \/ TypeQuery
    \/ on_refresh_event
    \/ SelectSorting
    \/ clear_search
    \/ ToggleItem

Spec == Init /\ [][Next]_vars

SpecTags == InitTags /\ [][Next]_vars

\* The program after its first search, and the user at the tree: the items
\* are those of any answer under any sorting.
InitLink == Started(LinkAccounts(1))

NextLink ==
    \/ TreeButton
    \/ TreeReturn

SpecLink == InitLink /\ [][NextLink]_vars

\* The settings files of a program that never reached its main loop: none,
\* or the credentials that get_API_key or get_token saved, or a file the
\* user removed the token from.
StoredFiles ==
    { EmptyConfig } \cup
    { [EmptyConfig EXCEPT !.API_key = Option(k), !.token = t] :
        k \in {UserKey, OtherKey, ShortKey, <<>>},
        t \in {Absent, Option(<<>>), Option(<<"t">>)} }

\* The program is not running and was never closed by on_closing.
InitOff ==
    /\ today = 1
    /\ server = {}
    /\ entry = <<>>
    /\ values = <<>>
    /\ sorting = ""
    /\ response = <<>>
    /\ last_sorting = <<>>
    /\ tree = <<>>
    /\ opened = NoCall
    /\ geometry = default_geometry
    /\ pc = "off"
    /\ file \in StoredFiles
    /\ config = EmptyConfig
    /\ API_key = <<>>
    /\ token = <<>>
    /\ search_strings = default_search_strings
    /\ sort_string = default_sort_string
    /\ window_geom = default_window_geom
    /\ probe = NoProbe
    /\ browser = NoBrowser

\* A session in which the user added query strings to the default history,
\* chose a sorting and moved the window.
InitSession ==
    /\ today = 1
    /\ server = {}
    /\ \E typed \in Arrangements(Typed(MaxQueryLen), MaxTyped) :
          values = typed \o default_search_strings
    /\ entry = values[1]
    /\ sorting \in sorting_options
    /\ response = <<>>
    /\ last_sorting = split(sorting)
    /\ tree = <<>>
    /\ opened = NoCall
    /\ \E geom \in Geometries : InSession(geom)

InitLife == InitOff \/ InitSession

NextLife ==
    \/ get_config
    \/ Navigated
    \/ DocumentCompleted
    \/ UserNavigates
    \/ UserCloses
    \/ on_closing

SpecLife == InitLife /\ [][NextLife]_vars

----------------------------------------------------------------------------
(* Properties of the results tree *)

StatusTags == {"complete", "overdue", "duetoday", "duethisweek"}

TagsOf(n) == { n.tags[i] : i \in DOMAIN n.tags }

StatusOf(n) == TagsOf(n) \cap StatusTags

IsLeafOf(n, c) == n.iid = <<"card", c.url>>

LeavesOf(c) == { i \in DOMAIN tree : IsLeafOf(tree[i], c) }

Shown == { response[i] : i \in DOMAIN response }

FullyChecked(c) ==
    c.badges.checkItems # 0 /\ c.badges.checkItems = c.badges.checkItemsChecked

\* C1: a card that is not marked complete has, by its due date alone: no
\* status without due date, 'overdue' before today, 'duetoday' today,
\* 'duethisweek' 1 to 6 days ahead, no status 7 days ahead or later.
C1_StatusByDueDate ==
    \A c \in Shown : ~c.dueComplete =>
        /\ LeavesOf(c) # {}
        /\ \A i \in LeavesOf(c) :
            LET st == StatusOf(tree[i])
                d == c.due \div TicksPerDay
            IN  /\ c.due = None => st = {}
                /\ c.due # None /\ d < today => st = {"overdue"}
                /\ c.due # None /\ d = today => st = {"duetoday"}
                /\ c.due # None /\ 0 < d - today /\ d - today < 7
                        => st = {"duethisweek"}
                /\ c.due # None /\ d - today >= 7 => st = {}

\* A card due in the afternoon of the sixth day ahead is shown 'duethisweek'.
C1_Witness ==
    \E c \in Shown : \E i \in LeavesOf(c) :
        /\ ~c.dueComplete
        /\ c.due = (today + 6) * TicksPerDay + (TicksPerDay - 1)
        /\ "duethisweek" \in TagsOf(tree[i])

\* C2, as claimed: a card marked complete is always shown 'complete'.
C2_Original ==
    \A c \in Shown : c.dueComplete =>
        \A i \in LeavesOf(c) : StatusOf(tree[i]) = {"complete"}

\* C2, amended: a card marked complete is shown 'complete' whatever its due
\* date is when it has one, and without status when it has none.
C2_CompleteWhenDue ==
    \A c \in Shown : c.dueComplete =>
        /\ LeavesOf(c) # {}
        /\ \A i \in LeavesOf(c) :
              /\ c.due # None => StatusOf(tree[i]) = {"complete"}
              /\ c.due = None => StatusOf(tree[i]) = {}

\* A card marked complete whose due date has passed is shown 'complete'.
C2_Witness ==
    \E c \in Shown : \E i \in LeavesOf(c) :
        /\ c.dueComplete
        /\ c.due # None /\ c.due \div TicksPerDay < today
        /\ TagsOf(tree[i]) = {"complete"}

\* C3, as claimed: a leaf carries '100%' exactly when the card's checklist
\* items are all checked, whatever its status.
C3_Original ==
    \A c \in Shown : \A i \in LeavesOf(c) :
        ("100%" \in TagsOf(tree[i])) <=> FullyChecked(c)

\* C3, amended: a leaf carries '100%' exactly when the card's checklist
\* items are all checked and the leaf carries no status tag.
C3_FullyCheckedWithoutStatus ==
    \A c \in Shown :
        /\ LeavesOf(c) # {}
        /\ \A i \in LeavesOf(c) :
              ("100%" \in TagsOf(tree[i]))
                  <=> (FullyChecked(c) /\ StatusOf(tree[i]) = {})

\* A card due in 3 days with checklist 2/2 is shown 'duethisweek' only.
C3_Witness ==
    \E c \in Shown : \E i \in LeavesOf(c) :
        /\ FullyChecked(c)
        /\ c.due # None /\ c.due \div TicksPerDay = today + 3
        /\ ~c.dueComplete
        /\ TagsOf(tree[i]) = {"duethisweek"}

IsCategory(n) == n.iid[1] # "card"

\* The item a card's leaf belongs under, for each sort preference.
GroupOf(c, sort) ==
    CASE sort = <<>>                -> <<>>
      [] sort = <<"board">>         -> <<c.board.url>>
      [] sort = <<"list">>          -> <<c.list.name>>
      [] sort = <<"board", "list">> -> <<c.board.url, c.list.name>>
      [] sort = <<"list", "board">> -> <<c.list.name, c.board.url>>

\* C4: under every sort preference, sibling category items are in
\* non-decreasing order of their names, a second-level item is under the
\* first-level item of its first component, and every card's leaf is under
\* the item of its own board and list.
C4_GroupsInSortOrder ==
    /\ \A i, j \in DOMAIN tree : tree[i].iid = tree[j].iid => i = j
    /\ \A i, j \in DOMAIN tree :
          /\ i < j
          /\ IsCategory(tree[i]) /\ IsCategory(tree[j])
          /\ tree[i].parent = tree[j].parent
          => Rank(tree[i].text) <= Rank(tree[j].text)
    /\ \A i \in DOMAIN tree : IsCategory(tree[i]) =>
          /\ Len(tree[i].iid) = Len(tree[i].parent) + 1
          /\ Len(tree[i].iid) <= Len(last_sorting)
          /\ tree[i].parent = SubSeq(tree[i].iid, 1, Len(tree[i].parent))
          /\ exists(tree, tree[i].parent)
          /\ \E c \in Shown :
                /\ tree[i].iid = SubSeq(GroupOf(c, last_sorting), 1, Len(tree[i].iid))
                /\ tree[i].text = c[last_sorting[Len(tree[i].iid)]].name
    /\ \A c \in Shown :
          /\ Cardinality(LeavesOf(c)) = 1
          /\ \A i \in LeavesOf(c) :
                /\ tree[i].parent = GroupOf(c, last_sorting)
                /\ exists(tree, tree[i].parent)

\* Three cards arrive out of order and are shown in two levels, the first
\* level holding more than one item.
C4_Witness ==
    /\ Len(last_sorting) = 2
    /\ Len(response) = 3
    /\ \E i, j \in DOMAIN response :
          i < j /\ TupleLt(sort_key(response[j], last_sorting), sort_key(response[i], last_sorting))
    /\ Cardinality({ i \in DOMAIN tree : tree[i].parent = <<>> }) > 1
    /\ \E i \in DOMAIN tree : Len(tree[i].parent) = 2

----------------------------------------------------------------------------
(* Properties of the search history *)

\* C5: no query string occurs twice in the history.
C5_NoDuplicate ==
    \A i, j \in DOMAIN values : values[i] = values[j] => i = j

\* The history holds two entries and the combobox shows the older one.
C5_Witness ==
    /\ Len(values) >= 2
    /\ entry = values[Len(values)]
    /\ response # <<>>

\* A step in which show_data ran: only send_querystring, with a query
\* string that is not empty, changes what is shown.
Searched == response' # response \/ last_sorting' # last_sorting

\* C6, as claimed: after send_querystring ran with a query string, that
\* string is the first entry of the history.
C6_Original == [][Searched => values'[1] = entry']_vars

\* C6, amended: send_querystring puts a query string that is not in the
\* history in front of it, and leaves the history as it is when the string
\* is in it already.
C6_NewQueryFirst ==
    [][Searched =>
         IF \E i \in DOMAIN values : values[i] = entry'
         THEN values' = values
         ELSE values' = <<entry'>> \o values /\ values'[1] = entry']_vars

\* A query string was put in front of the default history.
C6_Witness ==
    /\ values = <<Qa, AtMe>>
    /\ entry = Qa
    /\ response # <<>>

----------------------------------------------------------------------------
(* Properties of the settings file and of the credentials *)

\* C7, as claimed: what on_closing saved, get_config reads back when the
\* stored credentials validate: the credentials, the history, the sorting
\* and the window geometry of the session that was closed.
C7_RoundTrip ==
    [][pc = "closed" /\ pc' = "running" =>
         /\ API_key' = API_key
         /\ token' = token
         /\ search_strings' = values
         /\ sort_string' = sorting
         /\ geometry' = geometry]_vars

Stored == read(file)

\* C8: with a key and a token stored, an answer 200 leaves both as they
\* are and starts no dialog; another answer starts the dialog with the
\* stored key when that has 32 characters and the text says 'invalid
\* token', and without key otherwise.  When the dialog is over get_token
\* has saved the new token beside the stored key, and get_API_key has saved
\* the key and the token of the dialog.
C8_ValidationRouting ==
    [][/\ (pc \in {"off", "closed"} /\ pc' # pc
             /\ Stored.API_key.has /\ Stored.token.has) =>
            /\ probe'.status = 200 =>
                  /\ pc' = "running"
                  /\ API_key' = Stored.API_key.value
                  /\ token' = Stored.token.value
                  /\ file' = file
            /\ (/\ probe'.status # 200
                /\ Len(Stored.API_key.value) = KeyLength
                /\ probe'.invalid_token) =>
                  /\ pc' = "get_token"
                  /\ ~browser'.from_scratch
                  /\ browser'.API_key = Stored.API_key.value
                  /\ browser'.url = token_url(Stored.API_key.value)
                  /\ API_key' = Stored.API_key.value
                  /\ file' = file
            /\ (/\ probe'.status # 200
                /\ ~(Len(Stored.API_key.value) = KeyLength /\ probe'.invalid_token)) =>
                  /\ pc' = "get_API_key"
                  /\ browser'.from_scratch
                  /\ browser'.API_key = <<>>
                  /\ browser'.url = login_url
       /\ (pc = "get_token" /\ pc' = "running") =>
            /\ API_key' = API_key
            /\ token' \in Tokens \cup {<<>>}
            /\ file'.API_key = file.API_key
            /\ file'.token = Option(token')
       /\ (pc = "get_API_key" /\ pc' = "running") =>
            /\ file'.API_key = Option(API_key')
            /\ file'.token = Option(token')]_vars

\* The stored token was refused, the stored key has 32 characters, and the
\* program runs with the stored key and a new token, both saved.
C8_Witness ==
    /\ pc = "running"
    /\ probe.status # 200 /\ probe.invalid_token
    /\ API_key = UserKey
    /\ token = <<"u">>
    /\ file.API_key = Option(UserKey)
    /\ file.token = Option(<<"u">>)

C10_Original ==
    [][(pc = "get_API_key" /\ pc' = "running" /\ token' = <<>>) =>
         /\ API_key' = <<>>
         /\ file'.API_key = Option(<<>>)
         /\ file'.token = Option(<<>>)]_vars

\* C10, amended: the token returned and saved is empty, and the key returned
\* and saved is the one the form holds: none while the form has not been
\* to the page of the API key, the extracted one from the token page on.
C10_CancelKeepsKey ==
    [][(pc = "get_API_key" /\ pc' = "running" /\ token' = <<>>) =>
         /\ API_key' = browser.API_key
         /\ file'.API_key = Option(browser.API_key)
         /\ file'.token = Option(<<>>)
         /\ browser.url.page \in {"authorize", "approve"} => API_key' = UserKey
         /\ browser.API_key = <<>> => API_key' = <<>>]_vars

\* The user closed the window after the key was extracted: the program runs
\* with that key and without token, both saved.
C10_Witness ==
    /\ pc = "running"
    /\ probe.status # 200 /\ ~probe.invalid_token
    /\ API_key = UserKey
    /\ token = <<>>
    /\ file.API_key = Option(UserKey)
    /\ file.token = Option(<<>>)

----------------------------------------------------------------------------
(* Properties of the handlers of the tree *)

IsGroupNode(n) == n.tags \in { <<"cat1name">>, <<"cat2name">> }

IsGroupRow(row) == \E i \in DOMAIN tree : tree[i].iid = row /\ IsGroupNode(tree[i])

IsLeafRow(row) == \E i \in DOMAIN tree : tree[i].iid = row /\ ~IsGroupNode(tree[i])

\* The cards shown under the group item row.
CardsUnder(row) ==
    { c \in Shown :
        /\ Len(row) <= Len(last_sorting)
        /\ SubSeq(GroupOf(c, last_sorting), 1, Len(row)) = row }

\* The group item row stands for a board, alone or with a list.
HasBoard(row) == \E k \in 1..Len(row) : last_sorting[k] = "board"

BoardOf(row) == (CHOOSE c \in CardsUnder(row) : TRUE).board.url

ListOf(row) == (CHOOSE c \in CardsUnder(row) : TRUE).list.name

Activated == opened' # opened /\ opened'.event \in {"Double-1", "Return"}

----------------------------------------------------------------------------
(* Properties of the open and closed items *)

\* The open flag of the group item iid of the tree t, TRUE when t has none.
OpenBefore(t, iid) ==
    IF \E i \in DOMAIN t : t[i].iid = iid /\ IsGroupNode(t[i])
    THEN (CHOOSE n \in { t[i] : i \in DOMAIN t } : n.iid = iid).open
    ELSE TRUE

\* C12: when a search with another answer or another sorting has run, every
\* group item of the first and of the second level that was in the tree
\* before is open if and only if it was open before, and every group item
\* that was not in the tree before is open.
C12_OpenStatePreserved ==
    [][Searched =>
         \A j \in DOMAIN tree' :
            IsGroupNode(tree'[j]) =>
               tree'[j].open = OpenBefore(tree, tree'[j].iid)]_vars

\* After a second query string was searched, an item of the second level is
\* closed beside an open one.
C12_Witness ==
    /\ Len(values) = 2
    /\ Len(last_sorting) = 2
    /\ \E i, j \in DOMAIN tree :
          /\ tree[i].tags = <<"cat2name">> /\ ~tree[i].open
          /\ tree[j].tags = <<"cat2name">> /\ tree[j].open

====
